---- MODULE Spec2Model ----
(***************************************************************************)
(* Model of Blog-website/main.py: the three tables (users, blog_posts,     *)
(* comments), the login session of one browser, and one action per route   *)
(* handler.  Every action is one HTTP request handled to completion: the   *)
(* tables after the commit (or unchanged after a failed commit), the       *)
(* session, and the response.                                              *)
(***************************************************************************)
EXTENDS Integers, FiniteSets, Sequences, TLC

\* ---------------------------------------------------------------- bounds
MaxPostId == 2         \* largest primary key handed out in blog_posts
MaxCommentId == 1      \* largest primary key handed out in comments

\* ---------------------------------------------------------- input domains
Emails == {"a@x.com", "b@x.com"}
Passwords == {"pw1", "pw2"}
Salts == {"salt0001"}
\* the registration forms submitted: each person registers under one name
\* and password
RegisterForms ==
    {[email |-> "a@x.com", password |-> "pw1", name |-> "A"],
     [email |-> "b@x.com", password |-> "pw2", name |-> "B"]}
\* the post forms submitted that pass validation: two titles, and two
\* contents under the first title
ValidPostForms ==
    {[title |-> "T1", subtitle |-> "S1", body |-> "B1",
      img_url |-> "http://x/img.png"],
     [title |-> "T1", subtitle |-> "S2", body |-> "B2",
      img_url |-> "http://x/img2.png"],
     [title |-> "T2", subtitle |-> "S2", body |-> "B2",
      img_url |-> "http://x/img2.png"]}
CommentTexts == {"Nice!"}
\* the calendar days date.today() returns
Days == {1, 2}
Methods == {"GET", "POST"}
PostIdArgs == 1..(MaxPostId + 1)

Anonymous == 0         \* no user id in the session cookie
NoFlash == ""

VARIABLES users, blog_posts, comments, session, resp

vars == <<users, blog_posts, comments, session, resp>>

\* ------------------------------------------------------------ pure helpers
Max(S) == CHOOSE m \in S : \A x \in S : x <= m

\* primary key of the next inserted row: rowid = largest rowid + 1
NextId(table) == IF table = {} THEN 1 ELSE Max({r.id : r \in table}) + 1

\* pbkdf2 digest of a password under a salt (injective in both)
pbkdf2(password, salt) == <<"sha256", salt, password>>

generate_password_hash(password, salt) ==
    [method |-> "pbkdf2", salt |-> salt, digest |-> pbkdf2(password, salt)]

\* variant: a check that accepts any password
check_password_hash_any(pwhash, password) == TRUE

check_password_hash(pwhash, password) ==
    pwhash.digest = pbkdf2(password, pwhash.salt)

\* date.today().strftime("%B %d, %Y")
strftime(day) == <<"April", day + 2, 2025>>

\* current_user.is_authenticated
is_authenticated == session # Anonymous

\* db.select(User).where(User.email == email)
UserByEmail(email) == {u \in users : u.email = email}

\* db.get_or_404(BlogPost, post_id): the rows with that primary key
PostById(post_id) == {p \in blog_posts : p.id = post_id}

\* BlogPost.comments of a post
CommentsOf(post_id) == {c \in comments : c.post_id = post_id}

\* variant: blog_posts.title without unique=True
TitleTaken_never(title, post_id) == FALSE

\* unique=True on blog_posts.title: would a row with this title, stored under
\* primary key post_id, violate the constraint?
TitleTaken(title, post_id) ==
    \E p \in blog_posts : p.title = title /\ p.id # post_id

\* form.validate_on_submit(): a POST whose fields pass the validators
validate_on_submit(method, valid) == method = "POST" /\ valid

\* the response to a request: the route (op) and post id of its URL (0 when
\* the route has none), the status, the redirect target or rendered template,
\* and the message flashed
Response(op, post_id, status, location, flash) ==
    [op |-> op, post_id |-> post_id, status |-> status, location |-> location,
     flash |-> flash]

Redirect(op, post_id, location, flash) == Response(op, post_id, 302, location, flash)
Render(op, post_id, template) == Response(op, post_id, 200, template, NoFlash)
Abort(op, post_id, status) == Response(op, post_id, status, "", NoFlash)

\* ------------------------------------------------------------------- Init
Init ==
    /\ users = {}
    /\ blog_posts = {}
    /\ comments = {}
    /\ session = Anonymous
    /\ resp = Render("start", 0, "")

\* ---------------------------------------------------------------- actions
\* variant: register without the lookup of the email
register_unchecked(method, email, password, name, salt) ==
    IF method = "POST"
    THEN /\ users' = users \cup
               {[id |-> NextId(users), email |-> email, name |-> name,
                 password |-> generate_password_hash(password, salt)]}
         /\ session' = NextId(users)
         /\ resp' = Redirect("register", 0, "get_all_posts", NoFlash)
         /\ UNCHANGED <<blog_posts, comments>>
    ELSE /\ resp' = Render("register", 0, "register.html")
         /\ UNCHANGED <<users, blog_posts, comments, session>>

register(method, email, password, name, salt) ==
    IF method = "POST"
    THEN IF UserByEmail(email) # {}
         THEN /\ resp' = Redirect("register", 0, "login",
                    "You've already signed up with that email, log in instead!")
              /\ UNCHANGED <<users, blog_posts, comments, session>>
         ELSE /\ users' = users \cup
                    {[id |-> NextId(users), email |-> email, name |-> name,
                      password |-> generate_password_hash(password, salt)]}
              /\ session' = NextId(users)
              /\ resp' = Redirect("register", 0, "get_all_posts", NoFlash)
              /\ UNCHANGED <<blog_posts, comments>>
    ELSE /\ resp' = Render("register", 0, "register.html")
         /\ UNCHANGED <<users, blog_posts, comments, session>>

login(method, email, password) ==
    IF method = "POST"
    THEN IF UserByEmail(email) # {}
         THEN LET user == CHOOSE u \in UserByEmail(email) : TRUE IN
              IF check_password_hash(user.password, password)
              THEN /\ session' = user.id
                   /\ resp' = Redirect("login", 0, "get_all_posts", NoFlash)
                   /\ UNCHANGED <<users, blog_posts, comments>>
              ELSE /\ resp' = Redirect("login", 0, "login",
                         "Wrong password! Please try again!")
                   /\ UNCHANGED <<users, blog_posts, comments, session>>
         ELSE /\ resp' = Redirect("login", 0, "login",
                    "Email does not exist, please try again.")
              /\ UNCHANGED <<users, blog_posts, comments, session>>
    ELSE /\ resp' = Render("login", 0, "login.html")
         /\ UNCHANGED <<users, blog_posts, comments, session>>

logout ==
    /\ session' = Anonymous
    /\ resp' = Redirect("logout", 0, "get_all_posts", NoFlash)
    /\ UNCHANGED <<users, blog_posts, comments>>

\* variant: show_post without the is_authenticated test on a submission
show_post_unchecked(post_id, method, valid, text) ==
    IF PostById(post_id) = {}
    THEN /\ resp' = Abort("show_post", post_id, 404)
         /\ UNCHANGED <<users, blog_posts, comments, session>>
    ELSE IF validate_on_submit(method, valid)
         THEN /\ NextId(comments) <= MaxCommentId
              /\ comments' = comments \cup
                    {[id |-> NextId(comments), author_id |-> session,
                      post_id |-> post_id, text |-> text]}
              /\ resp' = Render("show_post", post_id, "post.html")
              /\ UNCHANGED <<users, blog_posts, session>>
         ELSE /\ resp' = Render("show_post", post_id, "post.html")
              /\ UNCHANGED <<users, blog_posts, comments, session>>

show_post(post_id, method, valid, text) ==
    IF PostById(post_id) = {}
    THEN /\ resp' = Abort("show_post", post_id, 404)
         /\ UNCHANGED <<users, blog_posts, comments, session>>
    ELSE IF validate_on_submit(method, valid)
         THEN IF ~is_authenticated
              THEN /\ resp' = Redirect("show_post", post_id, "login",
                         "You need to login or register to comment.")
                   /\ UNCHANGED <<users, blog_posts, comments, session>>
              ELSE /\ NextId(comments) <= MaxCommentId
                   /\ comments' = comments \cup
                         {[id |-> NextId(comments), author_id |-> session,
                           post_id |-> post_id, text |-> text]}
                   /\ resp' = Render("show_post", post_id, "post.html")
                   /\ UNCHANGED <<users, blog_posts, session>>
         ELSE /\ resp' = Render("show_post", post_id, "post.html")
              /\ UNCHANGED <<users, blog_posts, comments, session>>

add_new_post(method, valid, title, subtitle, body, img_url, today) ==
    IF is_authenticated
    THEN IF validate_on_submit(method, valid)
         THEN IF TitleTaken(title, 0)
              THEN \* IntegrityError at commit, not caught
                   /\ resp' = Abort("add_new_post", 0, 500)
                   /\ UNCHANGED <<users, blog_posts, comments, session>>
              ELSE /\ NextId(blog_posts) <= MaxPostId
                   /\ blog_posts' = blog_posts \cup
                         {[id |-> NextId(blog_posts), author_id |-> session,
                           title |-> title, subtitle |-> subtitle,
                           date |-> strftime(today), body |-> body,
                           img_url |-> img_url]}
                   /\ resp' = Redirect("add_new_post", 0, "get_all_posts", NoFlash)
                   /\ UNCHANGED <<users, comments, session>>
         ELSE /\ resp' = Render("add_new_post", 0, "make-post.html")
              /\ UNCHANGED <<users, blog_posts, comments, session>>
    ELSE /\ resp' = Redirect("add_new_post", 0, "login",
               "You need to login or register to comment.")
         /\ UNCHANGED <<users, blog_posts, comments, session>>

\* variant: an edit that leaves the author as it was
edit_post_body_keeps_author(post_id, method, valid, title, subtitle, body, img_url) ==
    IF PostById(post_id) = {}
    THEN /\ resp' = Abort("edit_post", post_id, 404)
         /\ UNCHANGED <<users, blog_posts, comments, session>>
    ELSE LET post == CHOOSE p \in PostById(post_id) : TRUE IN
         IF validate_on_submit(method, valid)
         THEN IF TitleTaken(title, post_id)
              THEN /\ resp' = Abort("edit_post", post_id, 500)
                   /\ UNCHANGED <<users, blog_posts, comments, session>>
              ELSE /\ blog_posts' = (blog_posts \ {post}) \cup
                         {[post EXCEPT !.title = title, !.subtitle = subtitle,
                                       !.img_url = img_url, !.body = body]}
                   /\ resp' = Redirect("edit_post", post_id, "show_post", NoFlash)
                   /\ UNCHANGED <<users, comments, session>>
         ELSE /\ resp' = Render("edit_post", post_id, "make-post.html")
              /\ UNCHANGED <<users, blog_posts, comments, session>>

\* the handler body of edit_post, run once admin_only lets the request in
edit_post_body(post_id, method, valid, title, subtitle, body, img_url) ==
    IF PostById(post_id) = {}
    THEN /\ resp' = Abort("edit_post", post_id, 404)
         /\ UNCHANGED <<users, blog_posts, comments, session>>
    ELSE LET post == CHOOSE p \in PostById(post_id) : TRUE IN
         IF validate_on_submit(method, valid)
         THEN IF TitleTaken(title, post_id)
              THEN \* IntegrityError at commit, not caught
                   /\ resp' = Abort("edit_post", post_id, 500)
                   /\ UNCHANGED <<users, blog_posts, comments, session>>
              ELSE /\ blog_posts' = (blog_posts \ {post}) \cup
                         {[post EXCEPT !.title = title, !.subtitle = subtitle,
                                       !.img_url = img_url, !.author_id = session,
                                       !.body = body]}
                   /\ resp' = Redirect("edit_post", post_id, "show_post", NoFlash)
                   /\ UNCHANGED <<users, comments, session>>
         ELSE /\ resp' = Render("edit_post", post_id, "make-post.html")
              /\ UNCHANGED <<users, blog_posts, comments, session>>

\* variant: a delete that removes the post row and leaves its comments alone
delete_post_body_orphan(post_id) ==
    IF PostById(post_id) = {}
    THEN /\ resp' = Abort("delete_post", post_id, 404)
         /\ UNCHANGED <<users, blog_posts, comments, session>>
    ELSE /\ blog_posts' = blog_posts \ PostById(post_id)
         /\ resp' = Redirect("delete_post", post_id, "get_all_posts", NoFlash)
         /\ UNCHANGED <<users, comments, session>>

\* the handler body of delete_post, run once admin_only lets the request in
delete_post_body(post_id) ==
    IF PostById(post_id) = {}
    THEN /\ resp' = Abort("delete_post", post_id, 404)
         /\ UNCHANGED <<users, blog_posts, comments, session>>
    ELSE IF CommentsOf(post_id) # {}
         THEN \* the flush sets comments.post_id of the post's comments to NULL,
              \* the column is NOT NULL: IntegrityError, nothing is committed
              /\ resp' = Abort("delete_post", post_id, 500)
              /\ UNCHANGED <<users, blog_posts, comments, session>>
         ELSE /\ blog_posts' = blog_posts \ PostById(post_id)
              /\ resp' = Redirect("delete_post", post_id, "get_all_posts", NoFlash)
              /\ UNCHANGED <<users, comments, session>>

\* variant: a decorator that lets every request in
admin_only_open(op, post_id, f) == f

\* the decorator: the wrapped handler runs only for an authenticated user
admin_only(op, post_id, f) ==
    IF is_authenticated
    THEN f
    ELSE /\ resp' = Abort(op, post_id, 403)
         /\ UNCHANGED <<users, blog_posts, comments, session>>

edit_post(post_id, method, valid, title, subtitle, body, img_url) ==
    admin_only("edit_post", post_id,
               edit_post_body(post_id, method, valid, title, subtitle, body, img_url))

\* variant: delete_post without the decorator
delete_post_ungated(post_id) == delete_post_body(post_id)

delete_post(post_id) ==
    admin_only("delete_post", post_id, delete_post_body(post_id))

\* ------------------------------------------------------ requests received
\* A GET carries no form; a POST carries a form that the validators of the
\* form class accept (valid) or reject.
NoField == ""
PostForms ==
    {[method |-> m, valid |-> FALSE, title |-> NoField, subtitle |-> NoField,
      body |-> NoField, img_url |-> NoField] : m \in Methods}
    \cup
    {[method |-> "POST", valid |-> TRUE, title |-> f.title,
      subtitle |-> f.subtitle, body |-> f.body, img_url |-> f.img_url] :
        f \in ValidPostForms}
CommentForms ==
    {[method |-> m, valid |-> FALSE, text |-> NoField] : m \in Methods}
    \cup
    {[method |-> "POST", valid |-> TRUE, text |-> t] : t \in CommentTexts}
LoginForms ==
    {[method |-> "GET", email |-> NoField, password |-> NoField]}
    \cup
    {[method |-> "POST", email |-> e, password |-> p] :
        e \in Emails, p \in Passwords}
RegisterRequests ==
    {[method |-> "GET", email |-> NoField, password |-> NoField,
      name |-> NoField]}
    \cup
    {[method |-> "POST", email |-> f.email, password |-> f.password,
      name |-> f.name] : f \in RegisterForms}

Register ==
    \E r \in RegisterRequests, salt \in Salts :
        register(r.method, r.email, r.password, r.name, salt)
Login == \E r \in LoginForms : login(r.method, r.email, r.password)
Logout == logout
ShowPost ==
    \E post_id \in PostIdArgs, r \in CommentForms :
        show_post(post_id, r.method, r.valid, r.text)
AddNewPost ==
    \E r \in PostForms, today \in Days :
        add_new_post(r.method, r.valid, r.title, r.subtitle, r.body, r.img_url,
                     today)
EditPost ==
    \E post_id \in PostIdArgs, r \in PostForms :
        edit_post(post_id, r.method, r.valid, r.title, r.subtitle, r.body,
                  r.img_url)
DeletePost == \E post_id \in PostIdArgs : delete_post(post_id)

Next ==
    \/ Register
    \/ Login
    \/ Logout
    \/ ShowPost
    \/ AddNewPost
    \/ EditPost
    \/ DeletePost

Spec == Init /\ [][Next]_vars

\* ------------------------------------------------------------- properties
UserIds == {u.id : u \in users}
PostIds == {p.id : p \in blog_posts}
UniqueEmails == \A u, v \in users : u.email = v.email => u = v
UniqueTitles == \A p, q \in blog_posts : p.title = q.title => p = q
TablesUnchanged ==
    /\ users' = users
    /\ blog_posts' = blog_posts
    /\ comments' = comments
IsFlashRedirect(r) == r.status = 302 /\ r.flash # NoFlash

\* C1: a DeletePost request by an authenticated user on an existing post
\* leaves the post gone from storage and no comment that referenced it in
\* storage.
C1_DeleteRemovesPostAndComments ==
    [][(/\ resp'.op = "delete_post"
        /\ session # Anonymous
        /\ resp'.post_id \in PostIds
        /\ delete_post(resp'.post_id))
       => (/\ \A p \in blog_posts' : p.id # resp'.post_id
           /\ \A c \in comments : c.post_id = resp'.post_id => c \notin comments')
      ]_vars

\* C2 (as stated): a request to /edit-post/<id> for an id that matches no post
\* is answered 404 whether or not a user is logged in.
C2_EditMissingAlways404 ==
    [][(/\ resp'.op = "edit_post"
        /\ resp'.post_id \notin PostIds
        /\ \E r \in PostForms :
              edit_post(resp'.post_id, r.method, r.valid, r.title, r.subtitle,
                        r.body, r.img_url))
       => resp'.status = 404
      ]_vars

\* C2 (amended): a request to /edit-post/<id> for an id that matches no post
\* is answered 404 when a user is logged in and 403 when no user is logged in;
\* the tables and the session stay as they were.
C2_EditMissing404OnlyLoggedIn ==
    [][(/\ resp'.op = "edit_post"
        /\ resp'.post_id \notin PostIds
        /\ \E r \in PostForms :
              edit_post(resp'.post_id, r.method, r.valid, r.title, r.subtitle,
                        r.body, r.img_url))
       => (/\ resp'.status = IF session # Anonymous THEN 404 ELSE 403
           /\ TablesUnchanged
           /\ session' = session)
      ]_vars

\* a logged-in user got 404 from /edit-post/<id> for an id that matches no post
C2_Witness ==
    /\ resp.op = "edit_post"
    /\ resp.status = 404
    /\ resp.post_id \notin PostIds
    /\ session # Anonymous

\* C3: every user-input conflict (register with a registered email, create a
\* post or edit a post to a title another post has, login with a wrong
\* password or an unknown email) is answered with a flash message and a
\* redirect, never with an error status.
C3_ConflictsFlashAndRedirect ==
    [][/\ (resp'.op = "register" =>
            \A r \in RegisterRequests, salt \in Salts :
               (/\ r.method = "POST"
                /\ \E u \in users : u.email = r.email
                /\ register(r.method, r.email, r.password, r.name, salt))
               => IsFlashRedirect(resp'))
       /\ (resp'.op = "login" =>
            \A r \in LoginForms :
               (/\ r.method = "POST"
                /\ ~\E u \in users :
                      /\ u.email = r.email
                      /\ u.password = generate_password_hash(r.password, u.password.salt)
                /\ login(r.method, r.email, r.password))
               => IsFlashRedirect(resp'))
       /\ (resp'.op = "add_new_post" =>
            \A r \in PostForms, today \in Days :
               (/\ r.method = "POST" /\ r.valid
                /\ session # Anonymous
                /\ \E p \in blog_posts : p.title = r.title
                /\ add_new_post(r.method, r.valid, r.title, r.subtitle, r.body,
                                r.img_url, today))
               => IsFlashRedirect(resp'))
       /\ (resp'.op = "edit_post" =>
            \A r \in PostForms :
               (/\ r.method = "POST" /\ r.valid
                /\ session # Anonymous
                /\ resp'.post_id \in PostIds
                /\ \E p \in blog_posts : p.title = r.title /\ p.id # resp'.post_id
                /\ edit_post(resp'.post_id, r.method, r.valid, r.title, r.subtitle,
                             r.body, r.img_url))
               => IsFlashRedirect(resp'))
      ]_vars

\* C4: a registration whose email already belongs to a stored user is answered
\* with a flash message and a redirect to login, changes neither the session
\* nor the tables, and in every state at most one user has any given email.
C4_DuplicateEmailRejected ==
    /\ UniqueEmails
    /\ [][/\ UniqueEmails'
          /\ (resp'.op = "register" =>
               \A r \in RegisterRequests, salt \in Salts :
                  (/\ r.method = "POST"
                   /\ \E u \in users : u.email = r.email
                   /\ register(r.method, r.email, r.password, r.name, salt))
                  => (/\ IsFlashRedirect(resp')
                      /\ resp'.location = "login"
                      /\ session' = session
                      /\ TablesUnchanged))
         ]_vars

\* a registration with a registered email was turned away, and both emails
\* are registered once
C4_Witness ==
    /\ resp.op = "register"
    /\ resp.flash = "You've already signed up with that email, log in instead!"
    /\ \A e \in Emails : Cardinality({u \in users : u.email = e}) = 1

\* C5: no two posts share a title; a valid submission by a logged-in user that
\* creates a post under a title some post has, or sets a post's title to that
\* of another post, fails and leaves the posts as they were.
C5_TitlesUnique ==
    /\ UniqueTitles
    /\ [][/\ UniqueTitles'
          /\ (resp'.op = "add_new_post" =>
               \A r \in PostForms, today \in Days :
                  (/\ r.method = "POST" /\ r.valid
                   /\ session # Anonymous
                   /\ \E p \in blog_posts : p.title = r.title
                   /\ add_new_post(r.method, r.valid, r.title, r.subtitle,
                                   r.body, r.img_url, today))
                  => (/\ blog_posts' = blog_posts
                      /\ resp'.status \notin {200, 302}))
          /\ (resp'.op = "edit_post" =>
               \A r \in PostForms :
                  (/\ r.method = "POST" /\ r.valid
                   /\ session # Anonymous
                   /\ \E p \in blog_posts : p.title = r.title /\ p.id # resp'.post_id
                   /\ resp'.post_id \in PostIds
                   /\ edit_post(resp'.post_id, r.method, r.valid, r.title,
                                r.subtitle, r.body, r.img_url))
                  => (/\ blog_posts' = blog_posts
                      /\ resp'.status \notin {200, 302}))
         ]_vars

\* a second post under a stored title was refused while two posts are stored
C5_Witness ==
    /\ resp.op = "add_new_post"
    /\ resp.status = 500
    /\ Cardinality(blog_posts) = 2
    /\ Cardinality({p.title : p \in blog_posts}) = 2

\* C6: a request to /edit-post/<id> or /delete/<id> made while no user is
\* logged in is answered 403 and nothing else: the tables and the session stay
\* as they were, so the target post of the /delete/<id> is still stored.
C6_GateRejectsAnonymous ==
    [][(session = Anonymous /\ resp'.op \in {"edit_post", "delete_post"})
       => (/\ resp'.status = 403
           /\ resp'.location = "" /\ resp'.flash = NoFlash
           /\ TablesUnchanged
           /\ session' = session)
      ]_vars

\* an anonymous /delete/<id> of a stored post was answered 403 and the post is
\* still stored
C6_Witness ==
    /\ resp.op = "delete_post"
    /\ resp.status = 403
    /\ resp.post_id \in PostIds
    /\ session = Anonymous

\* the users a submitted email and password identify
Matching(email, password) ==
    {u \in users : /\ u.email = email
                   /\ u.password = generate_password_hash(password, u.password.salt)}

\* a login submission sets the session to user U exactly when U has the
\* submitted email and the password matches U's hash; otherwise it is answered
\* with a flash and a redirect to login and the session stays as it was
LoginDecides ==
    resp'.op = "login" =>
       \A r \in LoginForms :
          (r.method = "POST" /\ login(r.method, r.email, r.password))
          => IF Matching(r.email, r.password) # {}
             THEN /\ session' \in {u.id : u \in Matching(r.email, r.password)}
                  /\ resp'.status = 302 /\ resp'.location = "get_all_posts"
             ELSE /\ session' = session
                  /\ IsFlashRedirect(resp') /\ resp'.location = "login"

\* C7 (as stated): a login sets the session exactly when email and password
\* match a stored user, and the request after a successful login changes the
\* current user only if it is a logout.
C7_SessionUntilLogout ==
    [][/\ LoginDecides
       /\ (/\ resp.op = "login" /\ resp.status = 302
           /\ resp.location = "get_all_posts"
           /\ session' # session)
          => resp'.op = "logout"
      ]_vars

\* C7 (amended): a login sets the session exactly when email and password
\* match a stored user; the current user changes only by a logout, a
\* successful login or a successful registration, and a session always names
\* a stored user.
C7_SessionUntilReplaced ==
    [][/\ LoginDecides
       /\ (session' # Anonymous => \E u \in users' : u.id = session')
       /\ (session' # session =>
             \/ resp'.op = "logout" /\ session' = Anonymous
             \/ /\ resp'.op \in {"login", "register"}
                /\ resp'.status = 302 /\ resp'.location = "get_all_posts"
                /\ session' # Anonymous)
      ]_vars

\* a login with the right password was answered by the redirect home and the
\* session names the user
C7_Witness ==
    /\ resp.op = "login"
    /\ resp.status = 302
    /\ resp.location = "get_all_posts"
    /\ session \in UserIds
    /\ Cardinality(users) = 2

C9_ReferentialIntegrity ==
    /\ \A c \in comments : c.author_id \in UserIds /\ c.post_id \in PostIds
    /\ \A p \in blog_posts : p.author_id \in UserIds

\* a /delete/<id> was handled for a post that has a comment
C9_Witness ==
    /\ resp.op = "delete_post"
    /\ resp.status \notin {403, 404}
    /\ \E c \in comments : c.post_id = resp.post_id

\* the posts after an edit of post post_id with form r by the current user:
\* id and date kept, the four fields from the form, the author the editor
EditApplied(post_id, r) ==
    LET old == CHOOSE p \in blog_posts : p.id = post_id IN
    /\ blog_posts' = {p \in blog_posts : p.id # post_id} \cup
          {[id |-> old.id, date |-> old.date, author_id |-> session,
            title |-> r.title, subtitle |-> r.subtitle, body |-> r.body,
            img_url |-> r.img_url]}
    /\ comments' = comments
    /\ users' = users
    /\ session' = session
    /\ resp'.status = 302 /\ resp'.location = "show_post"

\* C10 (as stated): a valid edit submission on a stored post by any logged-in
\* user succeeds: title, subtitle, body and img_url are the submitted ones,
\* the author is the editor, id and date are kept, every other post and all
\* comments are unchanged.
C10_EditAlwaysApplies ==
    [][resp'.op = "edit_post" =>
         \A r \in PostForms :
            (/\ r.method = "POST" /\ r.valid
             /\ session # Anonymous
             /\ resp'.post_id \in PostIds
             /\ edit_post(resp'.post_id, r.method, r.valid, r.title, r.subtitle,
                          r.body, r.img_url))
            => EditApplied(resp'.post_id, r)
      ]_vars

\* C10 (amended): a valid edit submission on a stored post by any logged-in
\* user, with a title that no other post has, succeeds: title, subtitle, body
\* and img_url are the submitted ones, the author is the editor, id and date
\* are kept, every other post and all comments are unchanged.
C10_EditAppliesUnlessTitleTaken ==
    [][resp'.op = "edit_post" =>
         \A r \in PostForms :
            (/\ r.method = "POST" /\ r.valid
             /\ session # Anonymous
             /\ resp'.post_id \in PostIds
             /\ ~\E p \in blog_posts : p.id # resp'.post_id /\ p.title = r.title
             /\ edit_post(resp'.post_id, r.method, r.valid, r.title, r.subtitle,
                          r.body, r.img_url))
            => EditApplied(resp'.post_id, r)
      ]_vars

\* an edit went through while two posts and a comment are stored; the edited
\* post now has the editor as author
C10_Witness ==
    /\ resp.op = "edit_post"
    /\ resp.status = 302
    /\ Cardinality(blog_posts) = 2
    /\ comments # {}
    /\ \E p \in blog_posts : p.id = resp.post_id /\ p.author_id = session

====
